---- MODULE Spec2Model ----
(***************************************************************************)
(* Palette randomizer of z3pr: the packed colour codec, the palette        *)
(* editor and the mode dispatch of randomize.                              *)
(*                                                                         *)
(* A buffer is a function 0..RomLen-1 -> 0..255.  A SnesColor is its       *)
(* 15-bit word.  A ColorF channel is a real in [0,1]; it is represented    *)
(* exactly as an integer count of half steps, h standing for h/62, so     *)
(* that v/31 is 2v and round(x*31) is a rounding of h/2.                   *)
(***************************************************************************)
EXTENDS Integers, Sequences, FiniteSets, TLC

\* ------------------------------------------------------------- bounds
RomLen == 6
MaxCollections == 2
MaxSource == 2
MaxBlends == 2

\* ---------------------------------------------------------- constants
ChannelMask == 31
RedMarker == 32
GreenMarker == 64
BlueMarker == 128
WordCount == 32768

Unit == 2 * ChannelMask

\* ------------------------------------------------------------ helpers
Range(s) == {s[i] : i \in DOMAIN s}

\* x & m for a mask m = 2^n - 1
BitAnd(x, m) == x % (m + 1)

\* x | b for a single bit b = 2^n
BitOr(x, b) == IF (x \div b) % 2 = 1 THEN x ELSE x + b

clamp(value, min_bound, max_bound) ==
    IF value < min_bound THEN min_bound
    ELSE IF max_bound < value THEN max_bound
    ELSE value

\* Python's round() of h/2: ties go to the even integer.
RoundHalf(h) ==
    LET q == h \div 2
    IN  IF h % 2 = 0 THEN q
        ELSE IF q % 2 = 0 THEN q ELSE q + 1

\* str.lower() on a string given as a tuple of characters
UpperCase == <<"A", "B", "C", "D", "E", "F", "G", "H", "I", "J", "K", "L", "M",
               "N", "O", "P", "Q", "R", "S", "T", "U", "V", "W", "X", "Y", "Z">>
LowerCase == <<"a", "b", "c", "d", "e", "f", "g", "h", "i", "j", "k", "l", "m",
               "n", "o", "p", "q", "r", "s", "t", "u", "v", "w", "x", "y", "z">>

LowerChar(c) ==
    IF \E i \in DOMAIN UpperCase : UpperCase[i] = c
    THEN LowerCase[CHOOSE i \in DOMAIN UpperCase : UpperCase[i] = c]
    ELSE c

Lower(s) == [i \in DOMAIN s |-> LowerChar(s[i])]

\* ---------------------------------------------------------- SnesColor
\* The 15-bit colour word: red in bits 0-4, green in 5-9, blue in 10-14.
SnesRed(c) == c % 32
SnesGreen(c) == (c \div 32) % 32
SnesBlue(c) == (c \div 1024) % 32
SnesLow(c) == c % 256
SnesHigh(c) == c \div 256

from_rgb(r, g, b) == (r + 32 * g + 1024 * b) % WordCount

\* called as from_high_and_low(rom[offset], rom[offset + 1]): first byte low
from_high_and_low(first, second) == (first + 256 * second) % WordCount

\* ------------------------------------------------------------- ColorF
ColorF(r, g, b) == [red |-> r, green |-> g, blue |-> b]

\* Python's None
NoColor == [kind |-> "None"]

to_color_f(c) == ColorF(2 * SnesRed(c), 2 * SnesGreen(c), 2 * SnesBlue(c))

\* mutant: truncation of the scaled channel to 4 bits
Quantize_Narrow(h) == clamp(RoundHalf(h), 0, 15)

Quantize(h) == clamp(RoundHalf(h), 0, ChannelMask)

from_color_f(f) == from_rgb(Quantize(f.red), Quantize(f.green), Quantize(f.blue))

inverse(x) == ColorF(Unit - x.red, Unit - x.green, Unit - x.blue)

Black == ColorF(0, 0, 0)

\* ------------------------------------------------------ colour sources
\* A colour source is one of
\*   [kind |-> "iterator", vals, pos]  iter(list): next() yields vals[pos+1]
\*   [kind |-> "callable", vals, pos]  a function returning vals[pos+1]
\*   [kind |-> "cycle", val]           itertools.cycle([val])
\*   [kind |-> "random"]               _random_color_generator()
\* Pattern is the content of the finite sources.
PatternColors == <<ColorF(31, 62, 13), ColorF(62, 1, 45), Black>>
Pattern(n) == [i \in 1..n |-> PatternColors[((i - 1) % Len(PatternColors)) + 1]]

ListSource(kind, n) == [kind |-> kind, vals |-> Pattern(n), pos |-> 0]
CycleSource(v) == [kind |-> "cycle", val |-> v]

\* _random_color_generator(): an endless generator object
random_color_generator == [kind |-> "random"]

Exhausted(gen) == gen.kind \in {"iterator", "callable"} /\ gen.pos >= Len(gen.vals)

\* next(gen); r is the value a random generator produces at this draw
NextValue(gen, r) ==
    CASE gen.kind = "cycle" -> gen.val
      [] gen.kind = "random" -> r
      [] OTHER -> gen.vals[gen.pos + 1]

Advance(gen) ==
    IF gen.kind \in {"iterator", "callable"} THEN [gen EXCEPT !.pos = @ + 1] ELSE gen

\* --------------------------------------------------------- transforms
\* The blend functions of the mode table, by name.  "inverse" and
\* "generated" are computed; the others work in hue/chroma/luma space and
\* their result is the value u supplied by the caller of Apply.
OpaqueTransforms ==
    {"maseya_blend", "acid_blend", "grayscale", "hue_blend", "luma_blend_swapped"}

Apply(blend_func, x, y, u) ==
    CASE blend_func = "inverse" -> inverse(x)
      [] blend_func = "generated" -> y
      [] OTHER -> u

\* ------------------------------------------------------ PaletteEditor
\* An editor is [keys, items]: the dict's keys in insertion order and the
\* dict itself.
RawReadIndices(offset) == <<offset, offset + 1>>

\* mutant: the blue channel read from the duplicate green byte's neighbour
OamReadIndices_Short(offset) == <<offset, offset + 1, offset + 3>>

OamReadIndices(offset) == <<offset, offset + 1, offset + 4>>

ReadIndices(offset) ==
    IF offset >= 0 THEN RawReadIndices(offset) ELSE OamReadIndices(-offset)

raw(rom, offset) ==
    LET ix == RawReadIndices(offset)
    IN  from_high_and_low(rom[ix[1]], rom[ix[2]])

oam(rom, offset) ==
    LET ix == OamReadIndices(offset)
    IN  from_rgb(BitAnd(rom[ix[1]], ChannelMask),
                 BitAnd(rom[ix[2]], ChannelMask),
                 BitAnd(rom[ix[3]], ChannelMask))

get_color(rom, offset) == IF offset >= 0 THEN raw(rom, offset) ELSE oam(rom, -offset)

Readable(rom, offset) == Range(ReadIndices(offset)) \subseteq DOMAIN rom

RECURSIVE DictKeys(_)
DictKeys(offsets) ==
    IF offsets = <<>> THEN <<>>
    ELSE LET n == Len(offsets)
             front == DictKeys(SubSeq(offsets, 1, n - 1))
         IN  IF offsets[n] \in Range(front) THEN front ELSE Append(front, offsets[n])

\* PaletteEditor(rom, offsets): the editor, or the IndexError of a read past
\* the end of the buffer
PaletteEditor_init(rom, offsets) ==
    IF \E i \in DOMAIN offsets : ~Readable(rom, offsets[i])
    THEN [err |-> "IndexError"]
    ELSE [err |-> "ok",
          ed |-> [keys |-> DictKeys(offsets),
                  items |-> [o \in Range(offsets) |-> to_color_f(get_color(rom, o))]]]

KeyIndex(ed, o) == CHOOSE i \in DOMAIN ed.keys : ed.keys[i] = o

\* An oracle gives, per slot position, the value a random source yields and
\* the result of an opaque transform.
\* Only what Apply and NextValue read is left open.
OracleColors == {Black, ColorF(31, 62, 13)}
Slots(n) == 1..(IF n = 0 THEN 1 ELSE n)
NoOracle(n) == [i \in Slots(n) |-> Black]
OraclesFor(n, blend_func, gen) ==
    [rand : IF gen.kind = "random" /\ blend_func = "generated"
            THEN [Slots(n) -> OracleColors] ELSE {NoOracle(n)},
     opaque : IF blend_func \in OpaqueTransforms
              THEN [Slots(n) -> OracleColors] ELSE {NoOracle(n)}]

\* PaletteEditor.blend: blend_color = blend_color_func() calls the source
\* once; a source that is not callable (an iterator, a generator, a cycle)
\* makes the call raise TypeError
PaletteEditor_blend(ed, blend_func, blend_color_func, orc) ==
    IF blend_color_func.kind # "callable"
    THEN [err |-> "TypeError", ed |-> ed, gen |-> blend_color_func, drawn |-> 0]
    ELSE IF Exhausted(blend_color_func)
    THEN [err |-> "StopIteration", ed |-> ed, gen |-> blend_color_func, drawn |-> 0]
    ELSE LET blend_color == NextValue(blend_color_func, orc.rand[1])
         IN  [err |-> "ok", drawn |-> 1,
              ed |-> [ed EXCEPT !.items =
                        [o \in DOMAIN @ |->
                            Apply(blend_func, @[o], blend_color,
                                  orc.opaque[KeyIndex(ed, o)])]],
              gen |-> Advance(blend_color_func)]

\* PaletteEditor.blend_by_color: one value is drawn per slot, in key order
RECURSIVE BlendByColorFrom(_, _, _, _, _)
BlendByColorFrom(ed, blend_func, gen, orc, i) ==
    IF i > Len(ed.keys)
    THEN [err |-> "ok", ed |-> ed, gen |-> gen, drawn |-> i - 1]
    ELSE IF Exhausted(gen)
    THEN [err |-> "StopIteration", ed |-> ed, gen |-> gen, drawn |-> i - 1]
    ELSE LET o == ed.keys[i]
             y == NextValue(gen, orc.rand[i])
         IN  BlendByColorFrom(
                 [ed EXCEPT !.items[o] = Apply(blend_func, @, y, orc.opaque[i])],
                 blend_func, Advance(gen), orc, i + 1)

PaletteEditor_blend_by_color(ed, blend_func, gen, orc) ==
    BlendByColorFrom(ed, blend_func, gen, orc, 1)

\* mutant: the word's bytes stored high byte first
RawStores_Swapped(offset, color) ==
    << <<offset + 0, SnesHigh(color)>>, <<offset + 1, SnesLow(color)>> >>

RawStores(offset, color) ==
    << <<offset + 0, SnesLow(color)>>, <<offset + 1, SnesHigh(color)>> >>

OamStores(offset, color) ==
    << <<offset + 0, BitOr(SnesRed(color), RedMarker)>>,
       <<offset + 1, BitOr(SnesGreen(color), GreenMarker)>>,
       <<offset + 3, BitOr(SnesGreen(color), GreenMarker)>>,
       <<offset + 4, BitOr(SnesBlue(color), BlueMarker)>> >>

write_color(offset, color) ==
    IF offset >= 0 THEN RawStores(offset, color) ELSE OamStores(-offset, color)

RECURSIVE EditorStores(_, _)
EditorStores(ed, i) ==
    IF i > Len(ed.keys) THEN <<>>
    ELSE write_color(ed.keys[i], from_color_f(ed.items[ed.keys[i]]))
         \o EditorStores(ed, i + 1)

\* rom[index] = value, one store after another; a store past the end raises
\* IndexError and leaves the earlier stores in place
RECURSIVE StoreAll(_, _, _)
StoreAll(rom, stores, i) ==
    IF i > Len(stores) THEN [err |-> "ok", rom |-> rom, stored |-> i - 1]
    ELSE IF stores[i][1] \notin DOMAIN rom
    THEN [err |-> "IndexError", rom |-> rom, stored |-> i - 1]
    ELSE StoreAll([rom EXCEPT ![stores[i][1]] = stores[i][2]], stores, i + 1)

write_to_rom(rom, ed) == StoreAll(rom, EditorStores(ed, 1), 1)

\* --------------------------------------------------------- mode names
N_none == <<"n", "o", "n", "e">>
N_maseya == <<"m", "a", "s", "e", "y", "a">>
N_default == <<"d", "e", "f", "a", "u", "l", "t">>
N_grayscale == <<"g", "r", "a", "y", "s", "c", "a", "l", "e">>
N_greyscale == <<"g", "r", "e", "y", "s", "c", "a", "l", "e">>
N_negative == <<"n", "e", "g", "a", "t", "i", "v", "e">>
N_invert == <<"i", "n", "v", "e", "r", "t">>
N_inverse == <<"i", "n", "v", "e", "r", "s", "e">>
N_inverted == <<"i", "n", "v", "e", "r", "t", "e", "d">>
N_blackout == <<"b", "l", "a", "c", "k", "o", "u", "t">>
N_classic == <<"c", "l", "a", "s", "s", "i", "c">>
N_dizzy == <<"d", "i", "z", "z", "y">>
N_sick == <<"s", "i", "c", "k">>
N_puke == <<"p", "u", "k", "e">>

\* The table built in randomize: mode name -> (color_blend, color_generator,
\* palette_blend), then the five aliases.
AlgorithmTuple(f, g, b) == [color_blend |-> f, color_generator |-> g, palette_blend |-> b]

algorithm_tuples(color_generator) ==
    LET t == (N_maseya :> AlgorithmTuple("maseya_blend", color_generator, "blend"))
          @@ (N_grayscale :> AlgorithmTuple("grayscale", CycleSource(NoColor), "blend"))
          @@ (N_negative :> AlgorithmTuple("inverse", CycleSource(NoColor), "blend"))
          @@ (N_blackout :> AlgorithmTuple("generated", CycleSource(Black), "blend"))
          @@ (N_classic :> AlgorithmTuple("acid_blend", color_generator, "blend"))
          @@ (N_dizzy :> AlgorithmTuple("hue_blend", color_generator, "blend_by_color"))
          @@ (N_sick :> AlgorithmTuple("luma_blend_swapped", color_generator,
                                       "blend_by_color"))
          @@ (N_puke :> AlgorithmTuple("generated", color_generator, "blend_by_color"))
    IN  t @@ (N_default :> t[N_maseya])
          @@ (N_greyscale :> t[N_grayscale])
          @@ (N_invert :> t[N_negative])
          @@ (N_inverse :> t[N_negative])
          @@ (N_inverted :> t[N_negative])

RecognizedModes ==
    {N_none, N_maseya, N_default, N_grayscale, N_greyscale, N_negative, N_invert,
     N_inverse, N_inverted, N_blackout, N_classic, N_dizzy, N_sick, N_puke}

\* ------------------------------------------------------------- inputs
\* Buffers: the colour (10, 20, 5) at offset 0 followed by mixed bytes, and
\* a buffer of 0xFF.
ExampleRom ==
    [i \in 0..(RomLen - 1) |->
        CASE i = 0 -> 138 [] i = 1 -> 22 [] OTHER -> (37 * i + 11) % 256]
FullRom == [i \in 0..(RomLen - 1) |-> 255]
RomChoices == {ExampleRom, FullRom}

\* Offset collections: raw slots at 0 and 1, an OAM slot at 1, the first raw
\* offset and the first OAM offset that reach past the end.
CollectionChoices ==
    {<<>>, <<0>>, <<-1>>, <<1, 0>>, <<0, 0>>, <<RomLen - 1>>, <<0, -(RomLen - 4)>>}

RECURSIVE SeqsUpTo(_, _)
SeqsUpTo(S, n) ==
    IF n = 0 THEN {<<>>}
    ELSE LET shorter == SeqsUpTo(S, n - 1)
         IN  shorter \cup {Append(q, x) : q \in shorter, x \in S}

OffsetLists == SeqsUpTo(CollectionChoices, MaxCollections)

ModeInputs ==
    RecognizedModes
    \cup {<<"N", "o", "n", "e">>, <<"N", "O", "N", "E">>,
          <<"B", "l", "a", "c", "k", "o", "u", "t">>,
          <<"N", "e", "g", "a", "t", "i", "v", "e">>, <<"P", "u", "k", "e">>,
          <<"n", "o", "n", "e", "e">>, <<"n", "o", "n", "e", " ">>,
          <<"r", "a", "n", "d", "o", "m">>, <<>>}

\* color_generator as passed: None, or an iterator over a list
GeneratorInputs == {NoColor} \cup {ListSource("iterator", n) : n \in 0..MaxSource}

\* -------------------------------------------------------------- state
VARIABLES
    rom,               \* the buffer
    rom0,              \* the buffer as it was when the call began
    mode,              \* randomize's mode
    offsets_iterator,  \* randomize's offset collections
    color_generator,   \* randomize's color_generator
    palette_editors,   \* the editors built so far
    algorithm,         \* the resolved tuple, "unset" before
    pc,                \* where the call is
    err,               \* the exception that ended the call, "none" otherwise
    k,                 \* position of the blend/write loop
    log,               \* what was done, in order
    draws,             \* number of values taken from the colour source
    probe              \* inputs and results of the codec and editor runs

vars == <<rom, rom0, mode, offsets_iterator, color_generator, palette_editors,
          algorithm, pc, err, k, log, draws, probe>>

Unset == AlgorithmTuple("unset", NoColor, "unset")
Unused == [kind |-> "unused"]

\* ---------------------------------------------------------- randomize
Init ==
    /\ rom \in RomChoices
    /\ rom0 = rom
    /\ mode \in ModeInputs
    /\ offsets_iterator \in OffsetLists
    /\ color_generator \in GeneratorInputs
    /\ palette_editors = <<>>
    /\ algorithm = Unset
    /\ pc = "call"
    /\ err = "none"
    /\ k = 0
    /\ log = <<>>
    /\ draws = 0
    /\ probe = Unused

Raise(e) == pc' = "raised" /\ err' = e

\* mutant: no early return on "none"
Enter_NoShortCircuit ==
    /\ pc = "call"
    /\ mode' = Lower(mode)
    /\ pc' = "build"
    /\ color_generator' =
         IF color_generator = NoColor THEN random_color_generator ELSE color_generator
    /\ UNCHANGED <<rom, rom0, offsets_iterator, palette_editors, algorithm, err, k,
                   log, draws, probe>>

\* mode = mode.lower(); return on "none"; default the colour generator
Enter ==
    /\ pc = "call"
    /\ mode' = Lower(mode)
    /\ IF mode' = N_none
       THEN pc' = "returned" /\ UNCHANGED color_generator
       ELSE /\ pc' = "build"
            /\ color_generator' =
                 IF color_generator = NoColor THEN random_color_generator
                 ELSE color_generator
    /\ UNCHANGED <<rom, rom0, offsets_iterator, palette_editors, algorithm, err, k,
                   log, draws, probe>>

\* palette_editors = [PaletteEditor(rom, offsets) for offsets in offsets_iterator]
\* one collection per step
BuildEditors ==
    /\ pc = "build"
    /\ LET n == Len(palette_editors)
       IN  IF n = Len(offsets_iterator)
           THEN pc' = "table" /\ UNCHANGED <<palette_editors, err, log>>
           ELSE LET r == PaletteEditor_init(rom, offsets_iterator[n + 1])
                IN  IF r.err # "ok"
                    THEN Raise(r.err) /\ UNCHANGED <<palette_editors, log>>
                    ELSE /\ palette_editors' = Append(palette_editors, r.ed)
                         /\ log' = Append(log, <<"build", n + 1>>)
                         /\ UNCHANGED <<pc, err>>
    /\ UNCHANGED <<rom, rom0, mode, offsets_iterator, color_generator, algorithm, k,
                   draws, probe>>

\* mutant: an unknown mode falls back to the default entry
ResolveMode_Fallback ==
    /\ pc = "table"
    /\ LET t == algorithm_tuples(color_generator)
           e == IF mode \in DOMAIN t THEN t[mode] ELSE t[N_default]
       IN  /\ algorithm' = e
           /\ color_generator' = e.color_generator
           /\ k' = 1
           /\ pc' = "loop"
    /\ UNCHANGED <<rom, rom0, mode, offsets_iterator, palette_editors, err, log, draws,
                   probe>>

\* color_blend, color_generator, palette_blend = algorithm_tuples[mode]
ResolveMode ==
    /\ pc = "table"
    /\ LET t == algorithm_tuples(color_generator)
       IN  IF mode \notin DOMAIN t
           THEN Raise("KeyError") /\ UNCHANGED <<algorithm, color_generator, k>>
           ELSE /\ algorithm' = t[mode]
                /\ color_generator' = t[mode].color_generator
                /\ k' = 1
                /\ pc' = "loop"
                /\ UNCHANGED err
    /\ UNCHANGED <<rom, rom0, mode, offsets_iterator, palette_editors, log, draws,
                   probe>>

PaletteBlend(ed, orc) ==
    IF algorithm.palette_blend = "blend"
    THEN PaletteEditor_blend(ed, algorithm.color_blend, color_generator, orc)
    ELSE PaletteEditor_blend_by_color(ed, algorithm.color_blend, color_generator, orc)

\* mutant: every editor is blended before any is written
BlendEditor_NoWrite ==
    /\ pc = "loop"
    /\ k <= Len(palette_editors)
    /\ \E orc \in OraclesFor(Len(palette_editors[k].keys), algorithm.color_blend,
                             color_generator) :
         LET r == PaletteBlend(palette_editors[k], orc)
         IN  /\ palette_editors' = [palette_editors EXCEPT ![k] = r.ed]
             /\ color_generator' = r.gen
             /\ draws' = draws + r.drawn
             /\ IF r.err # "ok"
                THEN Raise(r.err) /\ UNCHANGED <<log, k>>
                ELSE /\ k' = k + 1
                     /\ log' = Append(log, <<"blend", k>>)
                     /\ UNCHANGED <<pc, err>>
    /\ UNCHANGED <<rom, rom0, mode, offsets_iterator, algorithm, probe>>

\* palette_blend(palette_editor, color_blend, color_generator)
BlendEditor ==
    /\ pc = "loop"
    /\ k <= Len(palette_editors)
    /\ \E orc \in OraclesFor(Len(palette_editors[k].keys), algorithm.color_blend,
                             color_generator) :
         LET r == PaletteBlend(palette_editors[k], orc)
         IN  /\ palette_editors' = [palette_editors EXCEPT ![k] = r.ed]
             /\ color_generator' = r.gen
             /\ draws' = draws + r.drawn
             /\ IF r.err # "ok"
                THEN Raise(r.err) /\ UNCHANGED log
                ELSE /\ pc' = "write"
                     /\ log' = Append(log, <<"blend", k>>)
                     /\ UNCHANGED err
    /\ UNCHANGED <<rom, rom0, mode, offsets_iterator, algorithm, k, probe>>

\* palette_editor.write_to_rom(rom)
WriteEditor ==
    /\ pc = "write"
    /\ LET r == write_to_rom(rom, palette_editors[k])
       IN  /\ rom' = r.rom
           /\ IF r.err # "ok"
              THEN Raise(r.err) /\ UNCHANGED <<k, log>>
              ELSE /\ pc' = "loop"
                   /\ k' = k + 1
                   /\ log' = Append(log, <<"write", k>>)
                   /\ UNCHANGED err
    /\ UNCHANGED <<rom0, mode, offsets_iterator, color_generator, palette_editors,
                   algorithm, draws, probe>>

Return ==
    /\ pc = "loop"
    /\ k > Len(palette_editors)
    /\ pc' = "returned"
    /\ UNCHANGED <<rom, rom0, mode, offsets_iterator, color_generator,
                   palette_editors, algorithm, err, k, log, draws, probe>>

Next == Enter \/ BuildEditors \/ ResolveMode \/ BlendEditor \/ WriteEditor \/ Return

Spec == Init /\ [][Next]_vars

\* ------------------------------------------------- claims on randomize
Finished == pc \in {"returned", "raised"}

AllOffsets == UNION {Range(offsets_iterator[i]) : i \in DOMAIN offsets_iterator}

\* the bytes a slot occupies in the buffer
Footprint(o) ==
    IF o >= 0 THEN {o, o + 1} ELSE {-o, -o + 1, -o + 3, -o + 4}

InRange(o) == \A i \in Footprint(o) : i >= 0 /\ i < RomLen

NoOverlap == \A o1, o2 \in AllOffsets : o1 # o2 => Footprint(o1) \cap Footprint(o2) = {}

\* the channels a slot holds in buffer b, read as the claims describe
SlotChannels(b, o) ==
    IF o >= 0
    THEN LET w == b[o] + 256 * b[o + 1]
         IN  <<w % 32, (w \div 32) % 32, (w \div 1024) % 32>>
    ELSE <<b[-o] % 32, b[-o + 1] % 32, b[-o + 4] % 32>>

\* C1: a call whose lower-cased mode is "none" returns without error, leaves
\* every byte of the buffer as it was, builds no editor and draws nothing
\* from the colour source.
C1_NoneIsIdentity ==
    (pc # "call" /\ mode = N_none) =>
        /\ pc = "returned"
        /\ err = "none"
        /\ rom = rom0
        /\ draws = 0
        /\ color_generator \in GeneratorInputs
        /\ palette_editors = <<>>
        /\ log = <<>>

C1_Witness ==
    /\ pc = "returned"
    /\ mode = N_none
    /\ Len(offsets_iterator) = MaxCollections
    /\ offsets_iterator[1] = <<1, 0>>
    /\ color_generator = ListSource("iterator", MaxSource)

\* C2 (as claimed): after a call with mode "blackout" on in-range slots that
\* do not overlap, every raw slot's two bytes are 0 and every OAM slot's
\* bytes at a, a+1, a+3, a+4 are 0x20, 0x40, 0x40, 0x80.
C2_BlackoutDrivesToBlack ==
    (Finished /\ mode = N_blackout /\ NoOverlap /\ \A o \in AllOffsets : InRange(o)) =>
        \A o \in AllOffsets :
            IF o >= 0
            THEN rom[o] = 0 /\ rom[o + 1] = 0
            ELSE /\ rom[-o] = 32
                 /\ rom[-o + 1] = 64
                 /\ rom[-o + 3] = 64
                 /\ rom[-o + 4] = 128

\* C3 (as claimed): after a call with mode "negative" or one of its aliases
\* on in-range slots that do not overlap, every slot that held (r, g, b)
\* holds (31 - r, 31 - g, 31 - b).
C3_NegativeComplements ==
    (/\ Finished
     /\ mode \in {N_negative, N_invert, N_inverse, N_inverted}
     /\ NoOverlap
     /\ \A o \in AllOffsets : InRange(o)) =>
        \A o \in AllOffsets :
            LET old == SlotChannels(rom0, o)
            IN  SlotChannels(rom, o) = <<31 - old[1], 31 - old[2], 31 - old[3]>>

\* C8: a call whose lower-cased mode is not a recognized name never returns
\* normally, never reaches the blend/write loop, and leaves every byte of
\* the buffer as it was; it keeps stepping until it ends, and it ends in an
\* error.
C8_UnknownModeFails ==
    (pc # "call" /\ mode \notin RecognizedModes) =>
        /\ pc \in {"build", "table", "raised"}
        /\ rom = rom0
        /\ (pc = "raised" => err \in {"KeyError", "IndexError"})
        /\ (pc # "raised" => ENABLED Next)
        /\ algorithm = Unset

C8_Witness ==
    /\ pc = "raised"
    /\ err = "KeyError"
    /\ mode = <<"n", "o", "n", "e", "e">>
    /\ Len(palette_editors) = MaxCollections
    /\ rom = rom0

\* C10 (as claimed): in a call that returns, every editor after the first
\* was built only after the editor before it had been written back.
C10_BuildAfterPreviousWrite ==
    pc = "returned" =>
      \A p \in DOMAIN log :
        (log[p][1] = "build" /\ log[p][2] > 1) =>
            \E q \in 1..(p - 1) : log[q] = <<"write", log[p][2] - 1>>

\* C10 (amended): all editors are built first, in the supplied order and
\* from the buffer as it was at the call; only then, editor by editor in the
\* same order, the strategy is applied and the editor written back before
\* the next editor is blended.
ExpectedLog(n, m) ==
    [i \in 1..(n + m) |->
        IF i <= n THEN <<"build", i>>
        ELSE IF (i - n) % 2 = 1 THEN <<"blend", (i - n + 1) \div 2>>
        ELSE <<"write", (i - n) \div 2>>]

C10_BuildAllThenBlendWrite ==
    /\ \E n \in 0..Len(offsets_iterator), m \in 0..(2 * Len(offsets_iterator)) :
          /\ log = ExpectedLog(n, m)
          /\ m > 0 => n = Len(offsets_iterator)
          /\ n = Len(palette_editors)
    /\ pc \in {"build", "table"} => rom = rom0
    /\ \A i \in DOMAIN palette_editors :
          (pc \in {"build", "table"} \/ (pc = "loop" /\ i >= k) \/ (pc = "write" /\ i > k)) =>
              /\ palette_editors[i].keys = DictKeys(offsets_iterator[i])
              /\ \A o \in Range(offsets_iterator[i]) :
                    palette_editors[i].items[o] = to_color_f(get_color(rom0, o))

C10_Witness ==
    /\ Len(offsets_iterator) = 2
    /\ offsets_iterator[1] = <<0>>
    /\ offsets_iterator[2] = <<1, 0>>
    /\ log = ExpectedLog(2, 3)
    /\ rom # rom0
    /\ pc = "write"

\* ------------------------------------------------- the editor on its own
\* One PaletteEditor driven directly: constructed from a buffer and one
\* offset collection, blended up to MaxBlends times, written back once.
\* probe records the last operation and the editor and source before it.
EditorCollections ==
    CollectionChoices \cup {<<-1, 0>>, <<RomLen - 2>>, <<-(RomLen - 5), 1>>}

SourceInputs ==
    {ListSource(kind, n) : kind \in {"callable", "iterator"}, n \in 0..(MaxSource + 1)}

EditorTransforms == {"inverse", "generated"}

NoEditor == [keys |-> <<>>, items |-> <<>>]

Probe(kind, f, ed, gen, stored) ==
    [kind |-> kind, blend_func |-> f, before |-> ed, gen |-> gen, stored |-> stored]

InitEditor ==
    /\ rom \in RomChoices
    /\ rom0 = rom
    /\ mode = <<>>
    /\ offsets_iterator \in {<<c>> : c \in EditorCollections}
    /\ color_generator \in SourceInputs
    /\ palette_editors = <<>>
    /\ algorithm = Unset
    /\ pc = "new"
    /\ err = "none"
    /\ k = 0
    /\ log = <<>>
    /\ draws = 0
    /\ probe = Unused

\* PaletteEditor(rom, offsets)
Construct ==
    /\ pc = "new"
    /\ LET r == PaletteEditor_init(rom, offsets_iterator[1])
       IN  IF r.err # "ok"
           THEN Raise(r.err) /\ UNCHANGED palette_editors
           ELSE pc' = "ready" /\ palette_editors' = <<r.ed>> /\ UNCHANGED err
    /\ probe' = Probe("construct", "none", NoEditor, color_generator, 0)
    /\ UNCHANGED <<rom, rom0, mode, offsets_iterator, color_generator, algorithm, k,
                   log, draws>>

EditorBlendStep(kind, r, f) ==
    /\ palette_editors' = <<r.ed>>
    /\ color_generator' = r.gen
    /\ draws' = draws + r.drawn
    /\ probe' = Probe(kind, f, palette_editors[1], color_generator, 0)
    /\ k' = k + 1
    /\ IF r.err # "ok" THEN Raise(r.err) ELSE UNCHANGED <<pc, err>>
    /\ UNCHANGED <<rom, rom0, mode, offsets_iterator, algorithm, log>>

\* editor.blend(blend_func, blend_color_func)
Blend ==
    /\ pc = "ready"
    /\ k < MaxBlends
    /\ \E f \in EditorTransforms :
         EditorBlendStep("blend",
             PaletteEditor_blend(palette_editors[1], f, color_generator,
                 [rand |-> NoOracle(1), opaque |-> NoOracle(Len(palette_editors[1].keys))]),
             f)

\* editor.blend_by_color(blend_func, color_source)
BlendByColor ==
    /\ pc = "ready"
    /\ k < MaxBlends
    /\ \E f \in EditorTransforms :
         EditorBlendStep("blend_by_color",
             PaletteEditor_blend_by_color(palette_editors[1], f, color_generator,
                 [rand |-> NoOracle(Len(palette_editors[1].keys)),
                  opaque |-> NoOracle(Len(palette_editors[1].keys))]),
             f)

\* editor.write_to_rom(rom)
Write ==
    /\ pc = "ready"
    /\ LET r == write_to_rom(rom, palette_editors[1])
       IN  /\ rom' = r.rom
           /\ probe' = Probe("write", "none", palette_editors[1], color_generator,
                             r.stored)
           /\ IF r.err # "ok" THEN Raise(r.err) ELSE pc' = "written" /\ UNCHANGED err
    /\ UNCHANGED <<rom0, mode, offsets_iterator, color_generator, palette_editors,
                   algorithm, k, log, draws>>

NextEditor == Construct \/ Blend \/ BlendByColor \/ Write

SpecEditor == InitEditor /\ [][NextEditor]_vars

\* C7 (as claimed, in its own instance): on an editor with 2 slots and a
\* fresh 2-value colour source, blend draws exactly one value and both slots
\* become transform(existing, first value); blend_by_color draws exactly 2
\* values and the k-th slot in construction order becomes
\* transform(existing, k-th value).
C7_BlendStrategies ==
    LET keys == probe.before.keys
        g == probe.gen
    IN  (/\ probe.kind \in {"blend", "blend_by_color"}
         /\ Len(keys) = 2
         /\ g.pos = 0
         /\ Len(g.vals) = 2) =>
            /\ err = "none"
            /\ keys = DictKeys(offsets_iterator[1])
            /\ color_generator.pos = (IF probe.kind = "blend" THEN 1 ELSE 2)
            /\ \A i \in 1..2 :
                  palette_editors[1].items[keys[i]] =
                      Apply(probe.blend_func, probe.before.items[keys[i]],
                            g.vals[IF probe.kind = "blend" THEN 1 ELSE i], Black)

\* the claim's bound on a slot: raw offset+1 >= length, OAM abs(offset)+4 >= length
PastEnd(o) == IF o >= 0 THEN o + 1 >= RomLen ELSE -o + 4 >= RomLen

\* C9: an offset past the end of the buffer makes the editor's construction
\* raise, with no byte written; an IndexError is raised only there; and a
\* write_to_rom of a constructed editor stays inside the buffer and stores
\* every byte of every slot.
C9_ErrorAtConstructionOnly ==
    LET offsets == offsets_iterator[1]
    IN  /\ (pc # "new" /\ \E i \in DOMAIN offsets : PastEnd(offsets[i])) =>
              /\ pc = "raised"
              /\ err = "IndexError"
              /\ probe.kind = "construct"
              /\ rom = rom0
        /\ err = "IndexError" =>
              /\ probe.kind = "construct"
              /\ \E i \in DOMAIN offsets : PastEnd(offsets[i])
        /\ probe.kind = "write" =>
              /\ pc = "written"
              /\ probe.stored =
                    2 * Cardinality({o \in Range(offsets) : o >= 0})
                    + 4 * Cardinality({o \in Range(offsets) : o < 0})
              /\ \A o \in Range(offsets) : InRange(o)
              /\ LET last == probe.before.keys[Len(probe.before.keys)]
                     c == from_color_f(probe.before.items[last])
                 IN  probe.before.keys # <<>> =>
                        \A e \in Range(write_color(last, c)) : rom[e[1]] = e[2]

C9_Witness ==
    /\ probe.kind = "write"
    /\ pc = "written"
    /\ offsets_iterator[1] = <<-(RomLen - 5), 1>>
    /\ rom # rom0

\* ------------------------------------------------------ the codec alone
\* The conversions applied to every colour word, and the two encodings
\* applied to every channel triple at one raw and one OAM slot.
CodecOffsets == {0, -1}

CodecProbe(kind, word, offset, f, out) ==
    [kind |-> kind, word |-> word, offset |-> offset, f |-> f, out |-> out]

InitCodec ==
    /\ rom \in RomChoices
    /\ rom0 = rom
    /\ mode = <<>>
    /\ offsets_iterator = <<>>
    /\ color_generator = NoColor
    /\ palette_editors = <<>>
    /\ algorithm = Unset
    /\ pc = "codec"
    /\ err = "none"
    /\ k = 0
    /\ log = <<>>
    /\ draws = 0
    /\ \E w \in 0..(WordCount - 1) :
         \/ probe = CodecProbe("word", w, 0, Black, 0)
         \/ \E o \in CodecOffsets : probe = CodecProbe("triple", w, o, Black, 0)

\* SnesColor(i).to_color_f()
ToColorF ==
    /\ probe.kind = "word"
    /\ probe' = [probe EXCEPT !.kind = "float", !.f = to_color_f(probe.word)]
    /\ UNCHANGED <<rom, rom0, mode, offsets_iterator, color_generator,
                   palette_editors, algorithm, pc, err, k, log, draws>>

\* SnesColor.from_color_f(color_f)
FromColorF ==
    /\ probe.kind = "float"
    /\ probe' = [probe EXCEPT !.kind = "back", !.out = from_color_f(probe.f)]
    /\ UNCHANGED <<rom, rom0, mode, offsets_iterator, color_generator,
                   palette_editors, algorithm, pc, err, k, log, draws>>

\* write_color(offset, color) of write_to_rom
Encode ==
    /\ probe.kind = "triple"
    /\ LET r == StoreAll(rom, write_color(probe.offset, probe.word), 1)
       IN  rom' = r.rom /\ err' = (IF r.err = "ok" THEN "none" ELSE r.err)
    /\ probe' = [probe EXCEPT !.kind = "encoded"]
    /\ UNCHANGED <<rom0, mode, offsets_iterator, color_generator, palette_editors,
                   algorithm, pc, k, log, draws>>

\* get_color(offset) of PaletteEditor.__init__
Decode ==
    /\ probe.kind = "encoded"
    /\ probe' = [probe EXCEPT !.kind = "decoded", !.out = get_color(rom, probe.offset)]
    /\ UNCHANGED <<rom, rom0, mode, offsets_iterator, color_generator,
                   palette_editors, algorithm, pc, err, k, log, draws>>

NextCodec == ToColorF \/ FromColorF \/ Encode \/ Decode

SpecCodec == InitCodec /\ [][NextCodec]_vars

\* C5: for every 15-bit word i, from_color_f(to_color_f(SnesColor(i))) is
\* SnesColor(i).
C5_ColorFRoundTrip ==
    probe.kind = "back" => probe.out = probe.word

C5_Witness ==
    /\ probe.kind = "back"
    /\ probe.word = 10 + 32 * 20 + 1024 * 5
    /\ probe.f = ColorF(20, 40, 10)
    /\ probe.out = probe.word

\* C6: for every channel triple and both encodings, the encoded slot holds
\* the bytes the layout prescribes (raw: the word's low and high byte; OAM:
\* red|0x20, green|0x40 twice, blue|0x80, byte 2 untouched) and decoding the
\* slot gives the triple back.
C6_EncodeDecodeRoundTrip ==
    LET w == probe.word
        r == w % 32
        g == (w \div 32) % 32
        b == (w \div 1024) % 32
        o == probe.offset
    IN  /\ probe.kind \in {"encoded", "decoded"} =>
              /\ err = "none"
              /\ IF o >= 0
                 THEN /\ rom[o] + 256 * rom[o + 1] = r + 32 * g + 1024 * b
                      /\ \A i \in DOMAIN rom \ {o, o + 1} : rom[i] = rom0[i]
                 ELSE /\ rom[-o] = r + 32
                      /\ rom[-o + 1] = g + 64
                      /\ rom[-o + 3] = g + 64
                      /\ rom[-o + 4] = b + 128
                      /\ \A i \in DOMAIN rom \ {-o, -o + 1, -o + 3, -o + 4} :
                            rom[i] = rom0[i]
        /\ probe.kind = "decoded" =>
              <<SnesRed(probe.out), SnesGreen(probe.out), SnesBlue(probe.out)>>
                  = <<r, g, b>>

C6_Witness ==
    /\ probe.kind = "decoded"
    /\ probe.offset = -1
    /\ probe.word = 10 + 32 * 20 + 1024 * 5
    /\ rom0 = FullRom
    /\ rom[1] = 42 /\ rom[2] = 84 /\ rom[3] = 255 /\ rom[4] = 84 /\ rom[5] = 133
    /\ probe.out = probe.word

====
